---- MODULE Spec2Model ----
(***************************************************************************)
(* Model of the L2 router bot: fee estimation over the configured          *)
(* networks (router.estimate_transfer_costs), selection of the cheapest    *)
(* network (router.select_cheapest_network), transaction dispatch          *)
(* (tx_sender.TransactionSender) and the FastAPI handlers of main.py.      *)
(*                                                                         *)
(* A Python dict is modelled as the sequence of its items in insertion     *)
(* order, each item a pair <<key, value>>; a per-network result dict is a  *)
(* TLA+ record whose DOMAIN is the dict's key set.                         *)
(***************************************************************************)
EXTENDS Integers, Sequences, FiniteSets, TLC

\* ------------------------------------------------------------------------
\* Bounds of the model
\* ------------------------------------------------------------------------
MaxFee == 2
MaxGasPrice == 2
MaxGas == 2
MaxPrice == 1

\* ------------------------------------------------------------------------
\* Values
\* ------------------------------------------------------------------------
\* Python's None where an integer is expected (dict.get default).
None == -1

\* Python's None where a network name is expected.
NoName == "None"

\* networks.DEFAULT_NETWORKS, in insertion order.
NetworkNames == <<"arbitrum", "optimism", "base">>

NetworkSet == {NetworkNames[k] : k \in 1..Len(NetworkNames)}

\* NetworkConfig.native_symbol of each default network.
native_symbol(n) == "ETH"

\* price_feed.TOKEN_ID_MAP (its key set; the ids only build the URL).
TOKEN_ID_MAP == {"ETH"}

\* ------------------------------------------------------------------------
\* router.select_cheapest_network
\* ------------------------------------------------------------------------
\* data.get("total_fee_wei")
GetFee(data) == IF "total_fee_wei" \in DOMAIN data THEN data.total_fee_wei ELSE None

SkippedIgnoringError(data) == GetFee(data) = None

\* The two `continue` tests of the loop body.
Skipped(data) == ("error" \in DOMAIN data) \/ GetFee(data) = None

ReplacesLE(fee, cheapest_fee) == cheapest_fee = None \/ fee <= cheapest_fee

ReplacesGT(fee, cheapest_fee) == cheapest_fee = None \/ fee > cheapest_fee

\* The test that makes the current item the new cheapest.
Replaces(fee, cheapest_fee) == cheapest_fee = None \/ fee < cheapest_fee

RECURSIVE SelectLoop(_, _, _, _)
\* The for loop over costs.items(), from item k on, with the loop's locals.
SelectLoop(costs, k, cheapest_name, cheapest_fee) ==
    IF k > Len(costs) THEN cheapest_name
    ELSE LET name == costs[k][1]
             data == costs[k][2]
         IN IF Skipped(data)
            THEN SelectLoop(costs, k + 1, cheapest_name, cheapest_fee)
            ELSE IF Replaces(GetFee(data), cheapest_fee)
                 THEN SelectLoop(costs, k + 1, name, GetFee(data))
                 ELSE SelectLoop(costs, k + 1, cheapest_name, cheapest_fee)

select_cheapest_first_default(costs) ==
    SelectLoop(costs, 1, IF Len(costs) > 0 THEN costs[1][1] ELSE NoName, None)

select_cheapest_network(costs) == SelectLoop(costs, 1, NoName, None)

\* ------------------------------------------------------------------------
\* Cost mappings given to select_cheapest_network by a direct caller
\* (tests/test_router.py): any dict over the network names.
\* ------------------------------------------------------------------------
Fees == 0..MaxFee

EntryShapes ==
    {[error |-> "failed"]}
    \cup {[total_fee_wei |-> f] : f \in Fees}
    \cup {[error |-> "failed", total_fee_wei |-> f] : f \in Fees}

\* Sequences of distinct network names: the possible key orders of a dict.
KeyOrders ==
    {keys \in UNION {[1..n -> NetworkSet] : n \in 0..Cardinality(NetworkSet)} :
        \A j, k \in 1..Len(keys) : j # k => keys[j] # keys[k]}

CostMappings ==
    UNION {{[k \in 1..Len(keys) |-> <<keys[k], vals[k]>>] :
               vals \in [1..Len(keys) -> EntryShapes]} : keys \in KeyOrders}

IsSuccess(data) == "total_fee_wei" \in DOMAIN data /\ "error" \notin DOMAIN data

IsFailure(data) == "error" \in DOMAIN data

Keys(costs) == {costs[k][1] : k \in 1..Len(costs)}

\* The index of a key in a dict (0 when absent).
IndexOf(costs, name) ==
    IF name \in Keys(costs)
    THEN CHOOSE k \in 1..Len(costs) : costs[k][1] = name
    ELSE 0

\* The dict without its Failure items, order kept.
WithoutFailures(costs) == SelectSeq(costs, LAMBDA item : ~IsFailure(item[2]))

\* ------------------------------------------------------------------------
\* State of the service while it handles one HTTP request
\* ------------------------------------------------------------------------
VARIABLES
    env_private_key,   \* os.getenv("PRIVATE_KEY") is set and non-empty
    request,           \* the request being handled
    pc,                \* position of the handler
    i,                 \* estimate_transfer_costs: index of the loop's network
    gas_price,         \* estimate_transfer_costs: local gas_price
    estimated_gas,     \* estimate_transfer_costs: local estimated_gas
    results,           \* estimate_transfer_costs: the results dict
    est_status,        \* "none", "raised" or "returned"
    network,           \* network_name given to send_transfer
    sender_built,      \* a TransactionSender has been constructed
    est_rpc,           \* per network: RPC calls issued by the estimation
    oracle_calls,      \* HTTP requests issued to the price oracle
    send_calls,        \* invocations of send_transfer
    send_rpc,          \* per network: RPC calls issued by send_transfer
    signs,             \* calls of sign_transaction
    broadcasts,        \* per network: send_raw_transaction calls
    response           \* the HTTP response

svcvars == <<env_private_key, request, pc, i, gas_price, estimated_gas, results,
             est_status, network, sender_built, est_rpc, oracle_calls,
             send_calls, send_rpc, signs, broadcasts, response>>

Ops == {"estimate", "route", "send", "route_and_send"}

EstimateOps == {"estimate", "route", "route_and_send"}

\* A network name that DEFAULT_NETWORKS does not hold.
UnknownNetwork == "zksync"

\* EstimateRequest and SendRequest bodies that pass the pydantic validation;
\* an address is represented by whether to_checksum_address accepts it.
Requests ==
    [op : EstimateOps, from_valid : BOOLEAN, to_valid : BOOLEAN,
     include_usd : BOOLEAN, network : {NoName}]
    \cup [op : {"send"}, from_valid : BOOLEAN, to_valid : BOOLEAN,
          include_usd : {FALSE}, network : NetworkSet \cup {UnknownNetwork}]

\* Classes of the exceptions a web3 call raises.
ExcClasses == {"ValueError", "Exception"}

NoResponse == [status |-> 0, detail |-> "", chosen_network |-> NoName,
               tx_hash |-> FALSE]

Ok(chosen, hash) == [status |-> 200, detail |-> "", chosen_network |-> chosen,
                     tx_hash |-> hash]

HTTPError(code, msg) == [status |-> code, detail |-> msg,
                         chosen_network |-> NoName, tx_hash |-> FALSE]

ZeroCalls == [n \in NetworkSet |-> 0]

Bump(calls, n) == [calls EXCEPT ![n] = @ + 1]

RECURSIVE SumTo(_, _)
SumTo(calls, k) == IF k = 0 THEN 0 ELSE calls[NetworkNames[k]] + SumTo(calls, k - 1)

Total(calls) == SumTo(calls, Len(NetworkNames))

SvcInit ==
    /\ env_private_key \in BOOLEAN
    /\ request = [op |-> "estimate", from_valid |-> TRUE, to_valid |-> TRUE,
                  include_usd |-> FALSE, network |-> NoName]
    /\ pc = "idle"
    /\ i = 0
    /\ gas_price = None
    /\ estimated_gas = None
    /\ results = <<>>
    /\ est_status = "none"
    /\ network = NoName
    /\ sender_built = FALSE
    /\ est_rpc = ZeroCalls
    /\ oracle_calls = 0
    /\ send_calls = 0
    /\ send_rpc = ZeroCalls
    /\ signs = 0
    /\ broadcasts = ZeroCalls
    /\ response = NoResponse

\* The per-request state a new request starts from.
FreshRequestState ==
    /\ i' = 0
    /\ gas_price' = None
    /\ estimated_gas' = None
    /\ results' = <<>>
    /\ est_status' = "none"
    /\ sender_built' = FALSE
    /\ est_rpc' = ZeroCalls
    /\ oracle_calls' = 0
    /\ send_calls' = 0
    /\ send_rpc' = ZeroCalls
    /\ signs' = 0
    /\ broadcasts' = ZeroCalls
    /\ response' = NoResponse

VARIABLES sel_costs, sel_result, sel_pc

selvars == <<sel_costs, sel_result, sel_pc>>

SelInit ==
    /\ SvcInit
    /\ sel_costs \in CostMappings
    /\ sel_result = NoName
    /\ sel_pc = "call"

\* A direct call select_cheapest_network(sel_costs).
SelectCall ==
    /\ sel_pc = "call"
    /\ sel_result' = select_cheapest_network(sel_costs)
    /\ sel_pc' = "returned"
    /\ UNCHANGED <<sel_costs, svcvars>>

SelNext == SelectCall

SelectSpec == SelInit /\ [][SelNext]_<<svcvars, selvars>>

\* ------------------------------------------------------------------------
\* main.py: a request arrives at /estimate, /route, /send or /route-and-send
\* ------------------------------------------------------------------------
Receive ==
    /\ pc \in {"idle", "done"}
    /\ \E req \in Requests :
         /\ request' = req
         /\ pc' = IF req.op = "send" THEN "construct_sender" ELSE "est_validate"
    /\ network' = NoName
    /\ FreshRequestState
    /\ UNCHANGED <<env_private_key, selvars>>

\* ------------------------------------------------------------------------
\* router.estimate_transfer_costs
\* ------------------------------------------------------------------------
AddressesValidFromOnly(req) == req.from_valid

\* Both to_checksum_address calls return without raising.
AddressesValid(req) == req.from_valid /\ req.to_valid

\* Registry snapshot, clients, and the address validation; a malformed address
\* raises ValueError, which none of the three handlers catches.
EstValidate ==
    /\ pc = "est_validate"
    /\ IF AddressesValid(request)
       THEN /\ i' = 1
            /\ pc' = "est_gas_price"
            /\ UNCHANGED <<est_status, response>>
       ELSE /\ est_status' = "raised"
            /\ response' = HTTPError(500, "Invalid address provided")
            /\ pc' = "done"
            /\ UNCHANGED i
    /\ UNCHANGED <<env_private_key, request, gas_price, estimated_gas, results,
                   network, sender_built, est_rpc, oracle_calls, send_calls,
                   send_rpc, signs, broadcasts, selvars>>

\* Head of the for loop: the next network, or the return after the last one.
LoopPc(k) == IF k <= Len(NetworkNames) THEN "est_gas_price" ELSE "est_return"

LoopStatus(k) == IF k <= Len(NetworkNames) THEN "none" ELSE "returned"

AfterErrorBreak(k) == Len(NetworkNames) + 1

\* `continue` in the except clause: on to the next network.
AfterError(k) == k + 1

\* except Exception as exc: results[name] = {"error": str(exc)}; continue
EstFail(msg) ==
    /\ results' = Append(results, <<NetworkNames[i], [error |-> msg]>>)
    /\ i' = AfterError(i)
    /\ pc' = LoopPc(i')
    /\ est_status' = LoopStatus(i')
    /\ gas_price' = None
    /\ estimated_gas' = None

\* The Success record of the current network.
SuccessEntry(gp, gas, fee_usd) ==
    [gas_price_wei |-> gp,
     estimated_gas |-> gas,
     total_fee_wei |-> gp * gas,
     total_fee_native |-> <<gp * gas, 18>>,
     total_fee_usd |-> fee_usd]

\* results[name] = {...} after the try block, then the next iteration.
EstSucceed(gp, gas, fee_usd) ==
    /\ results' = Append(results, <<NetworkNames[i], SuccessEntry(gp, gas, fee_usd)>>)
    /\ i' = i + 1
    /\ pc' = LoopPc(i')
    /\ est_status' = LoopStatus(i')
    /\ gas_price' = None
    /\ estimated_gas' = None

\* gas_price = w3.eth.gas_price
EstGasPrice ==
    /\ pc = "est_gas_price"
    /\ est_rpc' = Bump(est_rpc, NetworkNames[i])
    /\ \/ /\ \E gp \in 1..MaxGasPrice : gas_price' = gp
          /\ pc' = "est_nonce"
          /\ UNCHANGED <<i, estimated_gas, results, est_status>>
       \/ EstFail("gas_price failed")
    /\ UNCHANGED <<env_private_key, request, network, sender_built, oracle_calls,
                   send_calls, send_rpc, signs, broadcasts, response, selvars>>

\* nonce = w3.eth.get_transaction_count(from_checksum)
EstNonce ==
    /\ pc = "est_nonce"
    /\ est_rpc' = Bump(est_rpc, NetworkNames[i])
    /\ \/ /\ pc' = "est_estimate_gas"
          /\ UNCHANGED <<i, gas_price, estimated_gas, results, est_status>>
       \/ EstFail("get_transaction_count failed")
    /\ UNCHANGED <<env_private_key, request, network, sender_built, oracle_calls,
                   send_calls, send_rpc, signs, broadcasts, response, selvars>>

WantsUsdAlways(req) == TRUE

\* if include_usd:
WantsUsd(req) == req.include_usd

\* estimated_gas = w3.eth.estimate_gas(tx), the fee, and, without
\* include_usd, the Success record.
EstEstimateGas ==
    /\ pc = "est_estimate_gas"
    /\ est_rpc' = Bump(est_rpc, NetworkNames[i])
    /\ \/ \E gas \in 1..MaxGas :
            IF WantsUsd(request)
            THEN /\ estimated_gas' = gas
                 /\ pc' = "est_price"
                 /\ UNCHANGED <<i, gas_price, results, est_status>>
            ELSE EstSucceed(gas_price, gas, None)
       \/ EstFail("estimate_gas failed")
    /\ UNCHANGED <<env_private_key, request, network, sender_built, oracle_calls,
                   send_calls, send_rpc, signs, broadcasts, response, selvars>>

\* price = await get_token_price(cfg.native_symbol): no request for a symbol
\* TOKEN_ID_MAP lacks; else one HTTP request, whose failure yields None.
EstPrice ==
    /\ pc = "est_price"
    /\ IF native_symbol(NetworkNames[i]) \in TOKEN_ID_MAP
       THEN /\ oracle_calls' = oracle_calls + 1
            /\ \/ \E price \in 1..MaxPrice :
                    EstSucceed(gas_price, estimated_gas,
                               gas_price * estimated_gas * price)
               \/ EstSucceed(gas_price, estimated_gas, None)
       ELSE /\ oracle_calls' = oracle_calls
            /\ EstSucceed(gas_price, estimated_gas, None)
    /\ UNCHANGED <<env_private_key, request, network, sender_built, est_rpc,
                   send_calls, send_rpc, signs, broadcasts, response, selvars>>

\* ------------------------------------------------------------------------
\* main.py: the handlers after estimate_transfer_costs has returned
\* ------------------------------------------------------------------------
\* /estimate: return costs
EstimateReturn ==
    /\ pc = "est_return"
    /\ request.op = "estimate"
    /\ response' = Ok(NoName, FALSE)
    /\ pc' = "done"
    /\ UNCHANGED <<env_private_key, request, i, gas_price, estimated_gas, results,
                   est_status, network, sender_built, est_rpc, oracle_calls,
                   send_calls, send_rpc, signs, broadcasts, selvars>>

\* /route: chosen = select_cheapest_network(costs)
RouteReturn ==
    /\ pc = "est_return"
    /\ request.op = "route"
    /\ response' = Ok(select_cheapest_network(results), FALSE)
    /\ pc' = "done"
    /\ UNCHANGED <<env_private_key, request, i, gas_price, estimated_gas, results,
                   est_status, network, sender_built, est_rpc, oracle_calls,
                   send_calls, send_rpc, signs, broadcasts, selvars>>

NeverNone(name) == FALSE

\* if network is None:
NoViableRoute(name) == name = NoName

\* /route-and-send: the selection and the test for None.
RouteAndSendSelect ==
    /\ pc = "est_return"
    /\ request.op = "route_and_send"
    /\ network' = select_cheapest_network(results)
    /\ IF NoViableRoute(network')
       THEN /\ response' = HTTPError(500, "Failed to estimate costs on all networks")
            /\ pc' = "done"
       ELSE /\ pc' = "construct_sender"
            /\ UNCHANGED response
    /\ UNCHANGED <<env_private_key, request, i, gas_price, estimated_gas, results,
                   est_status, sender_built, est_rpc, oracle_calls, send_calls,
                   send_rpc, signs, broadcasts, selvars>>

\* ------------------------------------------------------------------------
\* tx_sender.TransactionSender
\* ------------------------------------------------------------------------
KeyNotChecked(private_key, env_key) == TRUE

\* key = private_key or os.getenv("PRIVATE_KEY"); `if not key` raises.
KeyProvided(private_key, env_key) == private_key \/ env_key

\* sender = TransactionSender(): both handlers construct it with no argument
\* and outside their try block, so its ValueError reaches the framework.
ConstructSender ==
    /\ pc = "construct_sender"
    /\ IF KeyProvided(FALSE, env_private_key)
       THEN /\ sender_built' = TRUE
            /\ pc' = "send_transfer"
            /\ UNCHANGED response
       ELSE /\ response' = HTTPError(500, "A private key must be supplied")
            /\ pc' = "done"
            /\ UNCHANGED sender_built
    /\ UNCHANGED <<env_private_key, request, i, gas_price, estimated_gas, results,
                   est_status, network, est_rpc, oracle_calls, send_calls,
                   send_rpc, signs, broadcasts, selvars>>

\* The handler's except clauses around send_transfer: /send maps ValueError
\* to 400 and anything else to 500, /route-and-send maps everything to 500.
DispatchError(op, cls, msg) ==
    HTTPError(IF op = "send" /\ cls = "ValueError" THEN 400 ELSE 500, msg)

RetryBroadcast(step) == IF step = "send_broadcast" THEN "send_broadcast" ELSE "done"

\* An exception raised inside send_transfer leaves it and ends the request.
OnDispatchException(step) == "done"

\* The exception of a failed step of send_transfer reaches the handler.
SendFail(step, msg) ==
    \E cls \in ExcClasses :
        /\ response' = DispatchError(request.op, cls, msg)
        /\ pc' = OnDispatchException(step)

\* sender.send_transfer(network, ...): the registry lookup and the address
\* validation, before any RPC call.
SendTransferBegin ==
    /\ pc = "send_transfer"
    /\ send_calls' = send_calls + 1
    /\ network' = IF request.op = "send" THEN request.network ELSE network
    /\ IF network' \notin NetworkSet
       THEN /\ response' = DispatchError(request.op, "ValueError", "Unsupported network")
            /\ pc' = "done"
       ELSE IF ~AddressesValid(request)
            THEN /\ response' = DispatchError(request.op, "ValueError",
                                              "Invalid address provided")
                 /\ pc' = "done"
            ELSE /\ pc' = "send_nonce"
                 /\ UNCHANGED response
    /\ UNCHANGED <<env_private_key, request, i, gas_price, estimated_gas, results,
                   est_status, sender_built, est_rpc, oracle_calls, send_rpc,
                   signs, broadcasts, selvars>>

\* nonce = w3.eth.get_transaction_count(from_checksum)
SendNonce ==
    /\ pc = "send_nonce"
    /\ send_rpc' = Bump(send_rpc, network)
    /\ \/ pc' = "send_gas_price" /\ UNCHANGED response
       \/ SendFail("send_nonce", "get_transaction_count failed")
    /\ UNCHANGED <<env_private_key, request, i, gas_price, estimated_gas, results,
                   est_status, network, sender_built, est_rpc, oracle_calls,
                   send_calls, signs, broadcasts, selvars>>

\* gas_price = w3.eth.gas_price
SendGasPrice ==
    /\ pc = "send_gas_price"
    /\ send_rpc' = Bump(send_rpc, network)
    /\ \/ pc' = "send_estimate_gas" /\ UNCHANGED response
       \/ SendFail("send_gas_price", "gas_price failed")
    /\ UNCHANGED <<env_private_key, request, i, gas_price, estimated_gas, results,
                   est_status, network, sender_built, est_rpc, oracle_calls,
                   send_calls, signs, broadcasts, selvars>>

\* gas_limit = w3.eth.estimate_gas({...})
SendEstimateGas ==
    /\ pc = "send_estimate_gas"
    /\ send_rpc' = Bump(send_rpc, network)
    /\ \/ pc' = "send_sign" /\ UNCHANGED response
       \/ SendFail("send_estimate_gas", "estimate_gas failed")
    /\ UNCHANGED <<env_private_key, request, i, gas_price, estimated_gas, results,
                   est_status, network, sender_built, est_rpc, oracle_calls,
                   send_calls, signs, broadcasts, selvars>>

\* signed_tx = w3.eth.account.sign_transaction(tx, private_key=...)
SendSign ==
    /\ pc = "send_sign"
    /\ signs' = signs + 1
    /\ \/ pc' = "send_broadcast" /\ UNCHANGED response
       \/ SendFail("send_sign", "sign_transaction failed")
    /\ UNCHANGED <<env_private_key, request, i, gas_price, estimated_gas, results,
                   est_status, network, sender_built, est_rpc, oracle_calls,
                   send_calls, send_rpc, broadcasts, selvars>>

\* tx_hash = w3.eth.send_raw_transaction(...); on success the handler
\* answers with the hash (and, for /route-and-send, the network).
SendBroadcast ==
    /\ pc = "send_broadcast"
    /\ send_rpc' = Bump(send_rpc, network)
    /\ broadcasts' = Bump(broadcasts, network)
    /\ \/ /\ response' = Ok(IF request.op = "send" THEN NoName ELSE network, TRUE)
          /\ pc' = "done"
       \/ SendFail("send_broadcast", "send_raw_transaction failed")
    /\ UNCHANGED <<env_private_key, request, i, gas_price, estimated_gas, results,
                   est_status, network, sender_built, est_rpc, oracle_calls,
                   send_calls, signs, selvars>>

vars == <<svcvars, selvars>>

Init ==
    /\ SvcInit
    /\ sel_costs = <<>>
    /\ sel_result = NoName
    /\ sel_pc = "unused"

Next ==
    \/ Receive
    \/ EstValidate
    \/ EstGasPrice
    \/ EstNonce
    \/ EstEstimateGas
    \/ EstPrice
    \/ EstimateReturn
    \/ RouteReturn
    \/ RouteAndSendSelect
    \/ ConstructSender
    \/ SendTransferBegin
    \/ SendNonce
    \/ SendGasPrice
    \/ SendEstimateGas
    \/ SendSign
    \/ SendBroadcast

Spec == Init /\ [][Next]_vars

\* ------------------------------------------------------------------------
\* Properties of select_cheapest_network (SelectSpec)
\* ------------------------------------------------------------------------
FeeOf(costs, name) == costs[IndexOf(costs, name)][2].total_fee_wei

SuccessIndexes(costs) == {k \in 1..Len(costs) : IsSuccess(costs[k][2])}

FailureIndexes(costs) == {k \in 1..Len(costs) : IsFailure(costs[k][2])}

\* C1: on a non-empty mapping whose entries are all Success entries, the
\* returned name is a key of the mapping and its total_fee_wei is less than
\* or equal to the total_fee_wei of every entry.
C1_GlobalMinimum ==
    (/\ sel_pc = "returned"
     /\ Len(sel_costs) > 0
     /\ SuccessIndexes(sel_costs) = 1..Len(sel_costs))
    => /\ sel_result \in Keys(sel_costs)
       /\ \A k \in 1..Len(sel_costs) :
             FeeOf(sel_costs, sel_result) <= sel_costs[k][2].total_fee_wei

\* Three Success entries, the strict minimum neither first nor last in the
\* dict, and it is the one returned.
C1_Witness ==
    /\ sel_pc = "returned"
    /\ Len(sel_costs) = 3
    /\ SuccessIndexes(sel_costs) = {1, 2, 3}
    /\ sel_costs[2][2].total_fee_wei < sel_costs[3][2].total_fee_wei
    /\ sel_costs[3][2].total_fee_wei < sel_costs[1][2].total_fee_wei
    /\ sel_result = sel_costs[2][1]

\* C2: on a mapping mixing Success and Failure entries, the result is the
\* result on the mapping with its Failure entries removed (order kept), and
\* the returned name is never that of a Failure entry.
C2_IgnoresFailures ==
    (/\ sel_pc = "returned"
     /\ SuccessIndexes(sel_costs) # {}
     /\ FailureIndexes(sel_costs) # {})
    => /\ sel_result = select_cheapest_network(WithoutFailures(sel_costs))
       /\ sel_result \in Keys(sel_costs)
       /\ ~IsFailure(sel_costs[IndexOf(sel_costs, sel_result)][2])

\* A Failure entry that comes first and carries a fee below every Success
\* entry's fee is passed over.
C2_Witness ==
    /\ sel_pc = "returned"
    /\ Len(sel_costs) = 3
    /\ sel_costs[1][2] = [error |-> "failed", total_fee_wei |-> 0]
    /\ IsSuccess(sel_costs[2][2]) /\ sel_costs[2][2].total_fee_wei = 2
    /\ IsSuccess(sel_costs[3][2]) /\ sel_costs[3][2].total_fee_wei = 1
    /\ sel_result = sel_costs[3][1]

\* C3: the result is None exactly when the mapping has no Success entry
\* (empty, or Failure entries only); otherwise it is a key of the mapping.
C3_NoneIffNoSuccess ==
    sel_pc = "returned"
    => /\ (sel_result = NoName) <=> (SuccessIndexes(sel_costs) = {})
       /\ sel_result # NoName => sel_result \in Keys(sel_costs)

\* A non-empty mapping of Failure entries only yields None.
C3_Witness ==
    /\ sel_pc = "returned"
    /\ Len(sel_costs) = 2
    /\ FailureIndexes(sel_costs) = {1, 2}
    /\ sel_result = NoName

\* C4: among the Success entries that share the returned entry's fee, the
\* returned one comes first in the mapping's iteration order.
C4_FirstSeenWinsTies ==
    (sel_pc = "returned" /\ sel_result # NoName)
    => \A k \in SuccessIndexes(sel_costs) :
          sel_costs[k][2].total_fee_wei = FeeOf(sel_costs, sel_result)
          => IndexOf(sel_costs, sel_result) <= k

\* The second and third entries tie on the minimum, below the first entry;
\* the second is returned.
C4_Witness ==
    /\ sel_pc = "returned"
    /\ Len(sel_costs) = 3
    /\ SuccessIndexes(sel_costs) = {1, 2, 3}
    /\ sel_costs[2][2].total_fee_wei = sel_costs[3][2].total_fee_wei
    /\ sel_costs[2][2].total_fee_wei < sel_costs[1][2].total_fee_wei
    /\ sel_result = sel_costs[2][1]

\* ------------------------------------------------------------------------
\* Properties of the request handling (Spec)
\* ------------------------------------------------------------------------
EstimationRequest == pc # "idle" /\ request.op \in EstimateOps

\* C5: with valid addresses estimate_transfer_costs never raises; once it has
\* returned, the mapping has exactly one entry per configured network, in
\* registry order, each either a Success or a Failure record, and every
\* network has been queried whatever happened on the networks before it.
C5_OneEntryPerNetwork ==
    (EstimationRequest /\ request.from_valid /\ request.to_valid)
    => /\ est_status # "raised"
       /\ pc = "done" => est_status = "returned"
       /\ est_status = "returned"
          => /\ Len(results) = Len(NetworkNames)
             /\ \A k \in 1..Len(NetworkNames) :
                  /\ results[k][1] = NetworkNames[k]
                  /\ IsSuccess(results[k][2]) # IsFailure(results[k][2])
                  /\ est_rpc[NetworkNames[k]] >= 1

\* The first network fails on its gas price, the second succeeds, the third
\* fails on its gas estimate, and the mapping is returned.
C5_Witness ==
    /\ EstimationRequest
    /\ est_status = "returned"
    /\ Len(results) = 3
    /\ results[1][2] = [error |-> "gas_price failed"]
    /\ IsSuccess(results[2][2])
    /\ results[3][2] = [error |-> "estimate_gas failed"]

\* C6: with a malformed sender or recipient address the estimation issues no
\* RPC call and no price-oracle call on any network, returns no mapping, and
\* ends by raising the invalid-address error.
C6_MalformedAddressFailsFast ==
    (EstimationRequest /\ ~(request.from_valid /\ request.to_valid))
    => /\ est_rpc = ZeroCalls
       /\ oracle_calls = 0
       /\ results = <<>>
       /\ est_status # "returned"
       /\ pc \in {"est_validate", "done"}
       /\ pc = "done" => /\ est_status = "raised"
                         /\ response.detail = "Invalid address provided"

\* A request whose sender address is fine and whose recipient address is
\* malformed has been rejected.
C6_Witness ==
    /\ EstimationRequest
    /\ request.from_valid /\ ~request.to_valid
    /\ pc = "done"
    /\ est_status = "raised"

AllFailed == est_status = "returned" /\ SuccessIndexes(results) = {}

\* C7: in /route-and-send, when the estimation returned a mapping without any
\* Success entry, the request ends with the 500 "Failed to estimate costs on
\* all networks" error, and no TransactionSender is built, send_transfer is
\* not called, and no nonce fetch, signature or broadcast happens.
C7_NoViableRouteNoDispatch ==
    (pc # "idle" /\ request.op = "route_and_send" /\ AllFailed)
    => /\ pc \in {"est_return", "done"}
       /\ ~sender_built
       /\ send_calls = 0
       /\ send_rpc = ZeroCalls
       /\ signs = 0
       /\ broadcasts = ZeroCalls
       /\ pc = "done"
          => response = HTTPError(500, "Failed to estimate costs on all networks")

\* A /route-and-send request whose three estimations failed has been answered
\* with status 500, with the signing key configured.
C7_Witness ==
    /\ request.op = "route_and_send"
    /\ env_private_key
    /\ AllFailed
    /\ Len(results) = 3
    /\ pc = "done"
    /\ response.status = 500

DispatchFailures ==
    {"get_transaction_count failed", "gas_price failed", "estimate_gas failed",
     "sign_transaction failed", "send_raw_transaction failed"}

\* C8: within one /route-and-send request send_transfer is called at most
\* once, at most one broadcast is issued, every dispatch RPC goes to the
\* network the selection returned, and a failed dispatch ends the request with
\* a 500 carrying that failure's message.
C8_NoFallbackNoRetry ==
    (pc # "idle" /\ request.op = "route_and_send")
    => /\ send_calls <= 1
       /\ Total(broadcasts) <= 1
       /\ send_calls = 1 => network = select_cheapest_network(results)
       /\ \A n \in NetworkSet :
            (send_rpc[n] > 0 \/ broadcasts[n] > 0)
            => n = select_cheapest_network(results)
       /\ response.status # 0 => pc = "done"
       /\ (pc = "done" /\ send_calls = 1 /\ ~response.tx_hash)
          => /\ response.status = 500
             /\ response.detail \in DispatchFailures

\* The broadcast on the selected network failed although a second network
\* had a Success estimate; the request ended with that failure, after one
\* broadcast.
C8_Witness ==
    /\ request.op = "route_and_send"
    /\ pc = "done"
    /\ Cardinality(SuccessIndexes(results)) >= 2
    /\ broadcasts[network] = 1
    /\ Total(broadcasts) = 1
    /\ Total(send_rpc) = 4
    /\ response = HTTPError(500, "send_raw_transaction failed")

\* C9 as stated: at most one price-oracle call per estimation.
C9_SingleOracleCall == EstimationRequest => oracle_calls <= 1

\* C9 amended: the price oracle is called once per network whose gas price,
\* nonce and gas estimate queries all succeeded when include_usd is set, and
\* never otherwise: the number of oracle calls is the number of Success
\* entries, hence at most the number of configured networks.
C9_OracleCallPerSuccess ==
    EstimationRequest
    => /\ oracle_calls <= Len(NetworkNames)
       /\ oracle_calls = IF request.include_usd
                         THEN Cardinality(SuccessIndexes(results))
                         ELSE 0

\* An estimation with include_usd whose three networks succeeded made three
\* oracle calls.
C9_Witness ==
    /\ EstimationRequest
    /\ request.include_usd
    /\ est_status = "returned"
    /\ Cardinality(SuccessIndexes(results)) = 3
    /\ oracle_calls = 3

DispatchRequest == pc # "idle" /\ request.op \in {"send", "route_and_send"}

MissingKeyError == HTTPError(500, "A private key must be supplied")

\* C10 as stated: without the signing key no /send or /route-and-send request
\* gets as far as issuing a per-network RPC query.
C10_NoRpcWithoutCredential ==
    (DispatchRequest /\ ~env_private_key)
    => est_rpc = ZeroCalls /\ send_rpc = ZeroCalls

\* C10 amended: without the signing key the failure is raised when the
\* handler constructs the TransactionSender, inside the request: no sender is
\* built, send_transfer is never called and no dispatch RPC, signature or
\* broadcast happens; /send fails before any RPC call, /route-and-send fails
\* only after its estimation queries, and only when a network was selected.
C10_MissingCredentialFailsAtConstruction ==
    (DispatchRequest /\ ~env_private_key)
    => /\ ~sender_built
       /\ send_calls = 0
       /\ send_rpc = ZeroCalls
       /\ signs = 0
       /\ broadcasts = ZeroCalls
       /\ ~response.tx_hash
       /\ request.op = "send"
          => /\ est_rpc = ZeroCalls
             /\ pc = "done" => response = MissingKeyError
       /\ (request.op = "route_and_send" /\ pc = "done"
           /\ est_status = "returned" /\ SuccessIndexes(results) # {})
          => response = MissingKeyError

\* A /route-and-send request without the key was refused at the construction
\* of the sender, after its estimation had queried all three networks.
C10_Witness ==
    /\ request.op = "route_and_send"
    /\ ~env_private_key
    /\ pc = "done"
    /\ response = MissingKeyError
    /\ \A n \in NetworkSet : est_rpc[n] >= 1

InvalidSendInput ==
    \/ request.network \notin NetworkSet
    \/ ~request.from_valid
    \/ ~request.to_valid

\* C11: a /send request handled with the signing key configured is answered
\* with 400 exactly when its network is absent from the registry or one of
\* its addresses is malformed, and then no RPC call has been issued; every
\* other failure is answered with 500; a tx_hash is returned only after a
\* broadcast that succeeded.
C11_SendStatusClasses ==
    (pc = "done" /\ request.op = "send" /\ env_private_key)
    => /\ (response.status = 400) <=> InvalidSendInput
       /\ response.status = 400 => send_rpc = ZeroCalls
       /\ response.status \in {200, 400, 500}
       /\ response.tx_hash => /\ response.status = 200
                              /\ broadcasts[request.network] = 1

====
